---- MODULE Spec2Model ----
(***************************************************************************)
(* ClickDeal API (src/server.js): an HTTP gateway in front of the Shopify   *)
(* Admin / Storefront APIs and the WhatsApp send-message API.               *)
(*                                                                         *)
(* One request is followed from its arrival to its response.  Every action  *)
(* is the code a handler runs between two awaits.  Text that the code       *)
(* inspects (the Authorization header, variant ids, the customer name) is   *)
(* a sequence of one-character strings; text that is only copied through    *)
(* (titles, prices, invoice URLs, error messages) is an opaque string.      *)
(***************************************************************************)
EXTENDS Integers, Sequences, FiniteSets

VARIABLES cfg, req, pc, res, calls, outcomes, pending, chosenVariantId, draft, sends, phases

vars == <<cfg, req, pc, res, calls, outcomes, pending, chosenVariantId, draft, sends, phases>>

(* ------------------------------ bounds --------------------------------- *)

\* Longest configured recipient list.
MaxRecipients == 2

\* Largest numeric variant id a caller or the upstream uses.
MaxId == 11

\* Longest upstream product listing.
MaxProducts == 2

(* --------------------------- text helpers ------------------------------ *)

\* String.prototype.startsWith
StartsWith(s, p) == Len(s) >= Len(p) /\ SubSeq(s, 1, Len(p)) = p

\* String.prototype.slice(k) for 0 <= k
Slice(s, k) == IF k >= Len(s) THEN <<>> ELSE SubSeq(s, k + 1, Len(s))

DigitChar(d) == <<"0", "1", "2", "3", "4", "5", "6", "7", "8", "9">>[d + 1]

RECURSIVE ToDigits(_)
\* String(n) for a non-negative integer n
ToDigits(n) == IF n < 10 THEN <<DigitChar(n)>> ELSE ToDigits(n \div 10) \o <<DigitChar(n % 10)>>

BearerPrefix == <<"B", "e", "a", "r", "e", "r", " ">>

BearerPrefixLen == 7

GidScheme == <<"g", "i", "d", ":", "/", "/">>

VariantGidPrefix ==
    GidScheme \o <<"s", "h", "o", "p", "i", "f", "y", "/">>
              \o <<"P", "r", "o", "d", "u", "c", "t">>
              \o <<"V", "a", "r", "i", "a", "n", "t", "/">>

(* ------------------------- JavaScript values --------------------------- *)

Undefined == [t |-> "undefined", s |-> <<>>, n |-> 0]

Str(s) == [t |-> "string", s |-> s, n |-> 0]

Num(n) == [t |-> "number", s |-> <<>>, n |-> n]

Bool(b) == [t |-> "boolean", s |-> <<>>, n |-> IF b THEN 1 ELSE 0]

\* ToBoolean: what `!x` and `x || y` test
Truthy(v) ==
    CASE v.t = "string" -> v.s # <<>>
      [] v.t = "number" -> v.n # 0
      [] v.t = "boolean" -> v.n = 1
      [] OTHER -> FALSE

\* the typeof operator
TypeOf(v) == v.t

(* --------------------------- configuration ----------------------------- *)

\* WA_RECIPIENTS after split(",").map(trim).filter(Boolean): non-empty entries
RecipientLists == { [i \in 1..k |-> i] : k \in 0..MaxRecipients }

Configs ==
    [ API_KEY : {<<>>, <<"k">>},
      WA_TOKEN : {"", "EAAG"},
      WA_PHONE_ID : {"", "1555"},
      WA_RECIPIENTS : RecipientLists ]

API_KEY == cfg.API_KEY

WA_TOKEN == cfg.WA_TOKEN

WA_PHONE_ID == cfg.WA_PHONE_ID

WA_RECIPIENTS == cfg.WA_RECIPIENTS

(* ------------------------------ requests ------------------------------- *)

\* req.headers.authorization: absent, or one of a few header texts
AuthHeaders ==
    { [present |-> FALSE, text |-> <<>>] } \cup
    { [present |-> TRUE, text |-> h] :
        h \in { BearerPrefix \o <<"k">>, BearerPrefix \o <<"x">>, BearerPrefix,
                <<"k">>, <<"b", "e", "a", "r", "e", "r", " ", "k">> } }

NumericIds == { ToDigits(n) : n \in {1, MaxId - 1, MaxId} }

QualifiedIds == { VariantGidPrefix \o d : d \in NumericIds }

\* :variantId path parameters (Express never matches an empty one)
StockParams == NumericIds \cup QualifiedIds \cup { GidScheme \o <<"x">>, <<"a", "b">> }

Handles == { Str(<<"h">>), Str(<<"m">>) }

FieldNames == { "name", "phone", "address", "city", "productHandle", "quantity" }

BaseBody ==
    [ name |-> Str(<<"A", " ", "B">>), phone |-> Str(<<"7">>), address |-> Str(<<"s">>),
      city |-> Str(<<"c">>), productHandle |-> Str(<<"h">>), quantity |-> Num(2),
      variantId |-> Undefined ]

\* values a caller may put in one field of the JSON body
FieldValues ==
    { Undefined, Str(<<>>), Str(<<"A">>), Str(<<" ", "B">>), Num(0), Num(7), Bool(TRUE) }

VariantIdValues ==
    { Undefined, Str(<<>>), Num(MaxId) } \cup { Str(x) : x \in {ToDigits(MaxId), VariantGidPrefix \o ToDigits(MaxId)} }

\* req.body || {}: the base order with one field replaced, and any variantId
OrderBodies ==
    { [ [BaseBody EXCEPT ![f] = v] EXCEPT !.variantId = w ] :
        f \in FieldNames, v \in FieldValues \cup {BaseBody.quantity}, w \in VariantIdValues }
    \cup { [ k \in DOMAIN BaseBody |-> Undefined ] }

NoBody == [ k \in DOMAIN BaseBody |-> Undefined ]

Requests ==
    { [endpoint |-> e, auth |-> a, handle |-> Undefined, variantId |-> <<>>, body |-> NoBody] :
        e \in {"health", "products"}, a \in AuthHeaders }
    \cup { [endpoint |-> "price", auth |-> a, handle |-> h, variantId |-> <<>>, body |-> NoBody] :
        a \in AuthHeaders, h \in Handles }
    \cup { [endpoint |-> "stock", auth |-> a, handle |-> Undefined, variantId |-> v, body |-> NoBody] :
        a \in AuthHeaders, v \in StockParams }
    \cup { [endpoint |-> "orders", auth |-> a, handle |-> Undefined, variantId |-> <<>>, body |-> b] :
        a \in AuthHeaders, b \in OrderBodies }

NoRequest == [endpoint |-> "none", auth |-> [present |-> FALSE, text |-> <<>>], handle |-> Undefined,
              variantId |-> <<>>, body |-> NoBody]

NoResponse == [status |-> 0, body |-> [none |-> TRUE]]

NoDraft == [present |-> FALSE, id |-> "", invoiceUrl |-> ""]

(* ------------------------------- Init ---------------------------------- *)

Init ==
    /\ cfg \in Configs
    /\ req = NoRequest
    /\ pc = "idle"
    /\ res = NoResponse
    /\ calls = <<>>
    /\ outcomes = <<>>
    /\ pending = {}
    /\ chosenVariantId = Undefined
    /\ draft = NoDraft
    /\ sends = <<>>
    /\ phases = <<>>

(* --------------------- steps shared by the handlers -------------------- *)

\* res.status(s).json(b): the request is over
Respond(s, b) ==
    /\ res' = [status |-> s, body |-> b]
    /\ pc' = "responded"
    /\ phases' = Append(phases, "Responded")

\* a fetch() is started: the handler suspends on it
Issue(c, at) ==
    /\ calls' = Append(calls, c)
    /\ pending' = pending \cup {<<"call", Len(calls) + 1>>}
    /\ pc' = at
    /\ phases' = Append(phases, "UpstreamCalled")

\* the awaited call settles
Settle(o) ==
    /\ outcomes' = Append(outcomes, o)
    /\ pending' = pending \ {<<"call", Len(calls)>>}

\* a request arrives
Receive ==
    /\ pc = "idle"
    /\ \E r \in Requests : req' = r
    /\ pc' = "received"
    /\ phases' = <<"Received">>
    /\ UNCHANGED <<cfg, res, calls, outcomes, pending, chosenVariantId, draft, sends>>

\* the response is sent and every request-scoped value is discarded
Finish ==
    /\ pc = "responded"
    /\ req' = NoRequest
    /\ pc' = "idle"
    /\ res' = NoResponse
    /\ calls' = <<>>
    /\ outcomes' = <<>>
    /\ pending' = pending \ {<<"call", Len(calls)>>}
    /\ chosenVariantId' = Undefined
    /\ draft' = NoDraft
    /\ sends' = <<>>
    /\ phases' = <<>>
    /\ UNCHANGED cfg

\* GET /api/health
Health ==
    /\ pc = "received"
    /\ req.endpoint = "health"
    /\ Respond(200, [ok |-> TRUE, ts |-> "now"])
    /\ UNCHANGED <<cfg, req, calls, outcomes, pending, chosenVariantId, draft, sends>>

(* ------------------------------- auth ---------------------------------- *)

\* const auth = req.headers.authorization || ""
AuthText(r) == IF r.auth.present THEN r.auth.text ELSE <<>>

\* const token = auth.startsWith("Bearer ") ? auth.slice(7) : ""
BearerToken(r) ==
    IF StartsWith(AuthText(r), BearerPrefix) THEN Slice(AuthText(r), BearerPrefixLen) ELSE <<>>

\* AuthDenied without the empty-secret test
AuthDeniedNoSecretCheck(r) == BearerToken(r) # API_KEY

\* if (!API_KEY || token !== API_KEY)
AuthDenied(r) == API_KEY = <<>> \/ BearerToken(r) # API_KEY

Protected(r) == r.endpoint \in {"products", "price", "stock", "orders"}

\* requireAuth, rejecting
AuthReject ==
    /\ pc = "received"
    /\ Protected(req)
    /\ AuthDenied(req)
    /\ Respond(401, [error |-> "Unauthorized"])
    /\ UNCHANGED <<cfg, req, calls, outcomes, pending, chosenVariantId, draft, sends>>

\* requireAuth, calling next()
AuthPass ==
    /\ pc = "received"
    /\ Protected(req)
    /\ ~AuthDenied(req)
    /\ pc' = "authenticated"
    /\ phases' = Append(phases, "Authenticated")
    /\ UNCHANGED <<cfg, req, res, calls, outcomes, pending, chosenVariantId, draft, sends>>

(* ------------------------ upstream GraphQL client ----------------------- *)

\* what the transport can hand back for one POST
Transports == { "network", "status", "errors", "data" }

\* shopifyAdminGraphQL / shopifyStorefrontGraphQL: the error thrown, "" when none
GraphQLError(surface, transport) ==
    CASE transport = "network" -> "FetchError: request failed"
      [] transport = "status" -> "Error: Shopify " \o surface \o " error: 500"
      [] transport = "errors" -> "Error: [{\"message\":\"upstream\"}]"
      [] OTHER -> ""

NoInput == [variantId |-> Undefined, quantity |-> Undefined, address1 |-> Undefined, city |-> Undefined,
            firstName |-> Undefined, lastName |-> Undefined, phone |-> Undefined]

\* one commerce-platform request: its surface, its operation and its variables
Call(surface, op, handle, id, input) ==
    [surface |-> surface, op |-> op, handle |-> handle, id |-> id, input |-> input]

\* how an awaited commerce call ended, as the handler sees it
Outcome(transport, payload) ==
    [threw |-> transport # "data", transport |-> transport, payload |-> payload]

NoPayload == [hasData |-> FALSE]

(* --------------------------- GET /api/products -------------------------- *)

\* variant records of the REST listing; admin_graphql_api_id may be missing
RestVariants ==
    { [ admin_graphql_api_id |-> IF g THEN Str(VariantGidPrefix \o ToDigits(n)) ELSE Undefined,
        id |-> n, title |-> "Default",
        price |-> IF n = 1 THEN Str(<<"9">>) ELSE Str(<<"1", "2">>),
        inventory_quantity |-> IF n = 1 THEN Num(5) ELSE Undefined ] :
        n \in {1, MaxId}, g \in BOOLEAN }

RestVariantLists ==
    { [present |-> FALSE, list |-> <<>>], [present |-> TRUE, list |-> <<>>] }
    \cup { [present |-> TRUE, list |-> <<v>>] : v \in RestVariants }
    \cup { [present |-> TRUE, list |-> <<v, w>>] :
             v \in { x \in RestVariants : Truthy(x.admin_graphql_api_id) },
             w \in { x \in RestVariants : ~Truthy(x.admin_graphql_api_id) } }

RestProducts == { [title |-> "T", handle |-> "h", variants |-> vs] : vs \in RestVariantLists }

RECURSIVE SeqsUpTo(_, _)
SeqsUpTo(S, k) ==
    IF k = 0 THEN { <<>> }
    ELSE SeqsUpTo(S, k - 1) \cup { Append(q, x) : q \in { y \in SeqsUpTo(S, k - 1) : Len(y) = k - 1 }, x \in S }

\* the JSON body of a 2xx products.json response
RestListings ==
    { [hasData |-> TRUE, present |-> FALSE, products |-> <<>>] }
    \cup { [hasData |-> TRUE, present |-> TRUE, products |-> ps] : ps \in SeqsUpTo(RestProducts, MaxProducts) }

\* VariantSummaryId that ignores admin_graphql_api_id
VariantSummaryIdAlwaysBare(v) == ToDigits(v.id)

\* id: v.admin_graphql_api_id || String(v.id)
VariantSummaryId(v) ==
    IF Truthy(v.admin_graphql_api_id) THEN v.admin_graphql_api_id.s ELSE ToDigits(v.id)

\* (p.variants || []).map(v => ({id, title, price, inventory_quantity}))
VariantSummary(v) ==
    [id |-> VariantSummaryId(v), title |-> v.title, price |-> v.price,
     inventory_quantity |-> v.inventory_quantity]

\* (data.products || []).map(p => ({title, handle, variants}))
ProductSummary(p) ==
    [title |-> p.title, handle |-> p.handle,
     variants |-> [ i \in 1..Len(p.variants.list) |-> VariantSummary(p.variants.list[i]) ]]

\* res.json({ count: products.length, products })
ProductsBody(l) ==
    [count |-> Len(l.products), products |-> [ i \in 1..Len(l.products) |-> ProductSummary(l.products[i]) ]]

\* the handler up to `await fetch(url, ...)`
ProductsFetch ==
    /\ pc = "authenticated"
    /\ req.endpoint = "products"
    /\ Issue(Call("rest", "products", Undefined, Undefined, NoInput), "awaitRest")
    /\ UNCHANGED <<cfg, req, res, outcomes, chosenVariantId, draft, sends>>

\* the handler after the fetch settles
ProductsSettle ==
    /\ pc = "awaitRest"
    /\ \E transport \in {"network", "status", "data"} :
       \E l \in (IF transport = "data" THEN RestListings ELSE {NoPayload}) :
          /\ Settle(Outcome(transport, l))
          /\ CASE transport = "network" ->
                    Respond(500, [error |-> "Failed to fetch products", detail |-> "request failed"])
               [] transport = "status" ->
                    Respond(502, [error |-> "Shopify error", detail |-> "upstream body"])
               [] OTHER -> Respond(200, ProductsBody(l))
    /\ UNCHANGED <<cfg, req, calls, chosenVariantId, draft, sends>>

(* ------------------------- GET /api/price/:handle ----------------------- *)

StorefrontVariantId == VariantGidPrefix \o ToDigits(MaxId)

StorefrontNode == [id |-> StorefrontVariantId, title |-> "Default", price |-> [amount |-> "9.99", currencyCode |-> "USD"]]

\* `data` of a storefront product(handle:) query: null, no product, no variant, one variant
StorefrontPayloads ==
    { NoPayload,
      [hasData |-> TRUE, hasProduct |-> FALSE, title |-> "", nodes |-> <<>>],
      [hasData |-> TRUE, hasProduct |-> TRUE, title |-> "T", nodes |-> <<>>],
      [hasData |-> TRUE, hasProduct |-> TRUE, title |-> "T", nodes |-> <<StorefrontNode>>] }

\* ProductMissing without the empty-variant-list test
ProductMissingIgnoreEmpty(d) == ~d.hasProduct

\* !product || product.variants.nodes.length === 0
ProductMissing(d) == ~d.hasProduct \/ Len(d.nodes) = 0

\* reading a property of null or undefined (data.product, product.variants, v.id) throws
NullDataError == "TypeError: Cannot read properties of null"

PriceLookup ==
    /\ pc = "authenticated"
    /\ req.endpoint = "price"
    /\ Issue(Call("storefront", "product", req.handle, Undefined, NoInput), "awaitStorefront")
    /\ UNCHANGED <<cfg, req, res, outcomes, chosenVariantId, draft, sends>>

PriceSettle ==
    /\ pc = "awaitStorefront"
    /\ req.endpoint = "price"
    /\ \E transport \in Transports :
       \E d \in (IF transport = "data" THEN StorefrontPayloads ELSE {NoPayload}) :
          /\ Settle(Outcome(transport, d))
          /\ IF transport # "data" THEN Respond(500, [error |-> GraphQLError("Storefront", transport)])
             ELSE IF ~d.hasData THEN Respond(500, [error |-> NullDataError])
             ELSE IF ProductMissing(d) THEN Respond(404, [error |-> "Product not found or has no variants"])
             ELSE IF ~d.hasProduct \/ Len(d.nodes) = 0 THEN Respond(500, [error |-> NullDataError])
             ELSE Respond(200, [productHandle |-> req.handle, productTitle |-> d.title,
                                variantId |-> d.nodes[1].id, variantTitle |-> d.nodes[1].title,
                                price |-> d.nodes[1].price])
    /\ UNCHANGED <<cfg, req, calls, chosenVariantId, draft, sends>>

(* ------------------------ GET /api/stock/:variantId --------------------- *)

\* NormalizeVariantId without the startsWith test
NormalizeAlwaysPrefix(variantId) == VariantGidPrefix \o variantId

\* variantId.startsWith("gid://") ? variantId : `gid://shopify/ProductVariant/${variantId}`
NormalizeVariantId(variantId) ==
    IF StartsWith(variantId, GidScheme) THEN variantId ELSE VariantGidPrefix \o variantId

\* `data` of an admin productVariant(id:) query
StockPayloads(gid) ==
    { NoPayload, [hasData |-> TRUE, hasVariant |-> FALSE, id |-> <<>>, inventoryQuantity |-> 0, tracked |-> Undefined] }
    \cup { [hasData |-> TRUE, hasVariant |-> TRUE, id |-> gid, inventoryQuantity |-> 4, tracked |-> t] :
             t \in {Undefined, Bool(TRUE), Bool(FALSE)} }

StockQuery ==
    /\ pc = "authenticated"
    /\ req.endpoint = "stock"
    /\ Issue(Call("admin", "productVariant", Undefined, Str(NormalizeVariantId(req.variantId)), NoInput), "awaitAdmin")
    /\ UNCHANGED <<cfg, req, res, outcomes, chosenVariantId, draft, sends>>

StockSettle ==
    /\ pc = "awaitAdmin"
    /\ req.endpoint = "stock"
    /\ \E transport \in Transports :
       \E d \in (IF transport = "data" THEN StockPayloads(calls[Len(calls)].id.s) ELSE {NoPayload}) :
          /\ Settle(Outcome(transport, d))
          /\ IF transport # "data" THEN Respond(500, [error |-> GraphQLError("Admin", transport)])
             ELSE IF ~d.hasData THEN Respond(500, [error |-> NullDataError])
             ELSE IF ~d.hasVariant THEN Respond(404, [error |-> "Variant not found"])
             ELSE Respond(200, [variantId |-> d.id, quantity |-> d.inventoryQuantity,
                                tracked |-> IF d.tracked = Undefined THEN Bool(TRUE) ELSE d.tracked])
    /\ UNCHANGED <<cfg, req, calls, chosenVariantId, draft, sends>>

(* ---------------------------- POST /api/orders ------------------------- *)

\* !name || !phone || !address || !city || !productHandle || typeof quantity !== "number"
InvalidFields(b) ==
    \/ ~Truthy(b.name) \/ ~Truthy(b.phone) \/ ~Truthy(b.address) \/ ~Truthy(b.city)
    \/ ~Truthy(b.productHandle)
    \/ TypeOf(b.quantity) # "number"

Space == " "

RECURSIVE FirstSpace(_, _)
\* index of the first " " of s at or after i, 0 when there is none
FirstSpace(s, i) ==
    IF i > Len(s) THEN 0 ELSE IF s[i] = Space THEN i ELSE FirstSpace(s, i + 1)

\* name.split(" ")[0] || name
FirstName(name) ==
    LET k == FirstSpace(name, 1)
        first == IF k = 0 THEN name ELSE SubSeq(name, 1, k - 1)
    IN  IF first # <<>> THEN first ELSE name

Customer == <<"C", "u", "s", "t", "o", "m", "e", "r">>

\* name.split(" ").slice(1).join(" ") || "Customer"
LastName(name) ==
    LET k == FirstSpace(name, 1)
        rest == IF k = 0 THEN <<>> ELSE Slice(name, k)
    IN  IF rest # <<>> THEN rest ELSE Customer

\* lineItems: [{ variantId: chosenVariantId, quantity }]
LineItemVariant(chosen) == chosen

\* const input = { lineItems, shippingAddress, note, tags }
DraftOrderInput(b, chosen) ==
    [variantId |-> LineItemVariant(chosen), quantity |-> b.quantity, address1 |-> b.address, city |-> b.city,
     firstName |-> Str(FirstName(b.name.s)), lastName |-> Str(LastName(b.name.s)), phone |-> b.phone]

SplitError == "TypeError: name.split is not a function"

\* lines 233-255: build the input and start the draftOrderCreate mutation, with
\* `settled` the calls still in flight; name.split throws when a truthy name is no string
CreateDraft(chosen, settled) ==
    /\ chosenVariantId' = chosen
    /\ IF TypeOf(req.body.name) # "string"
       THEN /\ Respond(500, [error |-> SplitError])
            /\ pending' = settled
            /\ UNCHANGED calls
       ELSE /\ calls' = Append(calls, Call("admin", "draftOrderCreate", Undefined, Undefined,
                                           DraftOrderInput(req.body, chosen)))
            /\ pending' = settled \cup {<<"call", Len(calls) + 1>>}
            /\ pc' = "awaitAdmin"
            /\ phases' = Append(phases, "UpstreamCalled")
            /\ UNCHANGED res

\* lines 210-213
OrdersValidate ==
    /\ pc = "authenticated"
    /\ req.endpoint = "orders"
    /\ IF InvalidFields(req.body)
       THEN Respond(400, [error |-> "Missing or invalid fields"])
       ELSE /\ pc' = "validated"
            /\ phases' = Append(phases, "Validated")
            /\ UNCHANGED res
    /\ UNCHANGED <<cfg, req, calls, outcomes, pending, chosenVariantId, draft, sends>>

\* LookupNeeded that looks the variant up even when one is given
LookupNeededAlways(b) == TRUE

\* if (!chosenVariantId)
LookupNeeded(b) == ~Truthy(b.variantId)

\* lines 216-224, or 216 and 233-255 when the caller gave a variant id
OrdersResolve ==
    /\ pc = "validated"
    /\ IF LookupNeeded(req.body)
       THEN /\ Issue(Call("storefront", "product", req.body.productHandle, Undefined, NoInput), "awaitStorefront")
            /\ UNCHANGED <<res, chosenVariantId>>
       ELSE CreateDraft(req.body.variantId, pending)
    /\ UNCHANGED <<cfg, req, outcomes, draft, sends>>

\* lines 226-255, after the storefront lookup settles
OrdersLookupSettle ==
    /\ pc = "awaitStorefront"
    /\ req.endpoint = "orders"
    /\ \E transport \in Transports :
       \E d \in (IF transport = "data" THEN StorefrontPayloads ELSE {NoPayload}) :
          /\ outcomes' = Append(outcomes, Outcome(transport, d))
          /\ IF transport # "data"
             THEN /\ Respond(500, [error |-> GraphQLError("Storefront", transport)])
                  /\ pending' = pending \ {<<"call", Len(calls)>>}
                  /\ UNCHANGED <<calls, chosenVariantId>>
             ELSE IF ~d.hasData
             THEN /\ Respond(500, [error |-> NullDataError])
                  /\ pending' = pending \ {<<"call", Len(calls)>>}
                  /\ UNCHANGED <<calls, chosenVariantId>>
             ELSE IF ProductMissing(d)
             THEN /\ Respond(404, [error |-> "Product not found or has no variants"])
                  /\ pending' = pending \ {<<"call", Len(calls)>>}
                  /\ UNCHANGED <<calls, chosenVariantId>>
             ELSE IF ~d.hasProduct \/ Len(d.nodes) = 0
             THEN /\ Respond(500, [error |-> NullDataError])
                  /\ pending' = pending \ {<<"call", Len(calls)>>}
                  /\ UNCHANGED <<calls, chosenVariantId>>
             ELSE CreateDraft(Str(d.nodes[1].id), pending \ {<<"call", Len(calls)>>})
    /\ UNCHANGED <<cfg, req, draft, sends>>

(* ------------------------- draft order and notify ----------------------- *)

Drafts == { [present |-> TRUE, id |-> x, invoiceUrl |-> u] : x \in {"X1", "X2"}, u \in {"U1", "U2"} }

\* `data` of the draftOrderCreate mutation: null, no draft with userErrors, a draft
MutationPayloads ==
    { [hasData |-> FALSE, draftOrder |-> NoDraft, userErrors |-> "undefined"],
      [hasData |-> TRUE, draftOrder |-> NoDraft, userErrors |-> "variant invalid"] }
    \cup { [hasData |-> TRUE, draftOrder |-> d, userErrors |-> "none"] : d \in Drafts }

\* if (WA_TOKEN && WA_PHONE_ID && WA_RECIPIENTS.length > 0)
NotifyEnabled == WA_TOKEN # "" /\ WA_PHONE_ID # "" /\ Len(WA_RECIPIENTS) > 0

\* the message text of lines 262-270
NotificationText(b, d) ==
    [name |-> b.name, phone |-> b.phone, city |-> b.city, address |-> b.address,
     handle |-> b.productHandle, qty |-> b.quantity, invoice |-> d.invoiceUrl]

\* one `await fetch(url, ...)` of the recipient loop
Send(j, d) == [to |-> WA_RECIPIENTS[j], text |-> NotificationText(req.body, d), result |-> "pending"]

\* { ok: true, draftOrderId: draft.id, invoiceUrl: draft.invoiceUrl }
OrderCreated(d) == [ok |-> TRUE, draftOrderId |-> d.id, invoiceUrl |-> d.invoiceUrl]

\* what a send can do: resolve with a 2xx, resolve with an error status, reject
SendResults == { "delivered", "httpError", "threw" }

\* AfterSend without the try/catch around the send
AfterSendUncaught(j, result) ==
    IF result = "threw" THEN "fail" ELSE IF j < Len(WA_RECIPIENTS) THEN "send" ELSE "respond"

\* AfterSend whose catch leaves the loop
AfterSendStopOnError(j, result) ==
    IF result = "threw" \/ j >= Len(WA_RECIPIENTS) THEN "respond" ELSE "send"

\* try { await fetch } catch (err) { console.error } inside for (const to of WA_RECIPIENTS)
AfterSend(j, result) == IF j < Len(WA_RECIPIENTS) THEN "send" ELSE "respond"

\* DraftMissing without the if (!draft) test
DraftMissingNever(p) == FALSE

\* if (!draft)
DraftMissing(p) == ~p.hasData \/ ~p.draftOrder.present

\* lines 256-293, after the mutation settles
OrdersMutationSettle ==
    /\ pc = "awaitAdmin"
    /\ req.endpoint = "orders"
    /\ \E transport \in Transports :
       \E p \in (IF transport = "data" THEN MutationPayloads ELSE {NoPayload}) :
          /\ Settle(Outcome(transport, p))
          /\ IF transport # "data"
             THEN /\ Respond(500, [error |-> GraphQLError("Admin", transport)])
                  /\ UNCHANGED <<draft, sends>>
             ELSE IF DraftMissing(p)
             THEN /\ Respond(500, [error |-> "Draft order failed", details |-> p.userErrors])
                  /\ UNCHANGED <<draft, sends>>
             ELSE /\ draft' = p.draftOrder
                  /\ IF NotifyEnabled
                     THEN /\ sends' = <<Send(1, p.draftOrder)>>
                          /\ pc' = "awaitSend"
                          /\ UNCHANGED <<res, phases>>
                     ELSE /\ Respond(201, OrderCreated(p.draftOrder))
                          /\ UNCHANGED sends
    /\ UNCHANGED <<cfg, req, calls, chosenVariantId>>

\* lines 272-293, after one send settles
SendSettle ==
    /\ pc = "awaitSend"
    /\ \E result \in SendResults :
         LET j == Len(sends)
             settled == [sends EXCEPT ![j].result = result]
         IN  CASE AfterSend(j, result) = "send" ->
                    /\ sends' = Append(settled, Send(j + 1, draft))
                    /\ UNCHANGED <<res, pc, phases>>
               [] AfterSend(j, result) = "respond" ->
                    /\ sends' = settled
                    /\ Respond(201, OrderCreated(draft))
               [] OTHER ->
                    \* an error that escapes the loop lands in the handler's catch
                    /\ sends' = settled
                    /\ Respond(500, [error |-> "FetchError: request failed"])
    /\ UNCHANGED <<cfg, req, calls, outcomes, pending, chosenVariantId, draft>>

Next ==
    \/ Receive \/ Finish \/ Health \/ AuthReject \/ AuthPass
    \/ ProductsFetch \/ ProductsSettle \/ PriceLookup \/ PriceSettle \/ StockQuery \/ StockSettle
    \/ OrdersValidate \/ OrdersResolve \/ OrdersLookupSettle \/ OrdersMutationSettle \/ SendSettle

Spec == Init /\ [][Next]_vars

(* ------------------------------ properties ------------------------------ *)

Responded == pc = "responded"

\* the request went past requireAuth
Authenticated == Len(phases) >= 2 /\ phases[2] = "Authenticated"

\* the draftOrderCreate call of this request has returned data
MutationReturned ==
    \E i \in 1..Len(outcomes) :
        calls[i].op = "draftOrderCreate" /\ ~outcomes[i].threw /\ outcomes[i].payload.hasData

\* the draft order the mutation returned, NoDraft when it returned none
ReturnedDraft ==
    LET i == CHOOSE k \in 1..Len(outcomes) : calls[k].op = "draftOrderCreate"
    IN  outcomes[i].payload.draftOrder

DraftReturned == MutationReturned /\ ReturnedDraft.present

\* the storefront lookup of this request returned data without a usable variant
LookupFoundNothing ==
    /\ Len(outcomes) >= 1
    /\ calls[1].op = "product"
    /\ ~outcomes[1].threw
    /\ outcomes[1].payload.hasData
    /\ (~outcomes[1].payload.hasProduct \/ Len(outcomes[1].payload.nodes) = 0)

Digits == {"0", "1", "2", "3", "4", "5", "6", "7", "8", "9"}

\* a variant id in the bare numeric form
BareNumeric(v) ==
    \/ v.t = "number"
    \/ v.t = "string" /\ v.s # <<>> /\ \A i \in 1..Len(v.s) : v.s[i] \in Digits

\* C1: a request to a protected endpoint whose bearer token is not valid
\* (header missing, no "Bearer " prefix, token different from the secret, or
\* secret empty) is answered 401 {error: "Unauthorized"} and makes no
\* commerce call and no notification send.
C1_UnauthorizedNoUpstream ==
    ( /\ Protected(req)
      /\ \/ ~req.auth.present
         \/ ~StartsWith(req.auth.text, BearerPrefix)
         \/ Slice(req.auth.text, Len(BearerPrefix)) # cfg.API_KEY
         \/ cfg.API_KEY = <<>> )
    => /\ calls = <<>>
       /\ sends = <<>>
       /\ pc \in {"received", "responded"}
       /\ Responded => res = [status |-> 401, body |-> [error |-> "Unauthorized"]]

\* C1 witness: the header carries "Bearer " and an empty token, the secret is
\* empty too, and the order request has been answered.
C1_Witness ==
    /\ Responded
    /\ req.endpoint = "orders"
    /\ req.auth.present /\ req.auth.text = BearerPrefix
    /\ cfg.API_KEY = <<>>
    /\ res.status = 401

\* C2: an authenticated POST /api/orders whose name, phone, address, city or
\* productHandle is not a non-empty string, or whose quantity is not a number,
\* is answered 400 {error: "Missing or invalid fields"} and makes no upstream call.
C2_MalformedRejected ==
    ( /\ req.endpoint = "orders"
      /\ Authenticated
      /\ \/ \E f \in {"name", "phone", "address", "city", "productHandle"} :
               req.body[f].t # "string" \/ req.body[f].s = <<>>
         \/ req.body.quantity.t # "number" )
    => /\ calls = <<>>
       /\ sends = <<>>
       /\ Responded => res = [status |-> 400, body |-> [error |-> "Missing or invalid fields"]]

\* C3: when the draft-order mutation returned a draft order {id: X, invoiceUrl: U},
\* the order request is answered 201 {ok: true, draftOrderId: X, invoiceUrl: U},
\* whatever the sends did.
C3_CreatedWhateverNotify ==
    (Responded /\ req.endpoint = "orders" /\ DraftReturned)
    => res = [status |-> 201,
              body |-> [ok |-> TRUE, draftOrderId |-> ReturnedDraft.id, invoiceUrl |-> ReturnedDraft.invoiceUrl]]

\* C3 witness: answered 201 after every one of at least two sends threw.
C3_Witness ==
    /\ Responded
    /\ req.endpoint = "orders"
    /\ DraftReturned
    /\ Len(sends) >= 2
    /\ \A j \in 1..Len(sends) : sends[j].result = "threw"

\* C4: no productVariant query and no draftOrderCreate line item is issued
\* with a bare numeric variant id.
C4_NoBareVariantUpstream ==
    \A i \in 1..Len(calls) :
        /\ calls[i].op = "productVariant" => ~BareNumeric(calls[i].id)
        /\ calls[i].op = "draftOrderCreate" => ~BareNumeric(calls[i].input.variantId)

\* C5: GET /api/stock/n and GET /api/stock/gid://shopify/ProductVariant/n query
\* the same id gid://shopify/ProductVariant/n, and normalizing the id that was
\* sent changes nothing.
C5_StockSameTarget ==
    (req.endpoint = "stock" /\ calls # <<>>)
    => /\ \A n \in 1..MaxId :
            req.variantId \in {ToDigits(n), VariantGidPrefix \o ToDigits(n)}
            => calls[1].id = Str(VariantGidPrefix \o ToDigits(n))
       /\ StartsWith(req.variantId, GidScheme) => calls[1].id = Str(req.variantId)
       /\ NormalizeVariantId(calls[1].id.s) = calls[1].id.s

\* C5 witness: the stock query has been issued for an already-qualified two-digit id.
C5_Witness ==
    /\ req.endpoint = "stock"
    /\ calls # <<>>
    /\ req.variantId = VariantGidPrefix \o ToDigits(MaxId)

\* C6: when the storefront lookup returns no product or a product without
\* variants, the price request is answered 404 with exactly
\* {error: "Product not found or has no variants"}, and the order request is
\* answered 404 without a draft-order mutation or a notification send.
C6_NoVariantIs404 ==
    (Responded /\ LookupFoundNothing)
    => /\ res.status = 404
       /\ req.endpoint = "price" => res.body = [error |-> "Product not found or has no variants"]
       /\ req.endpoint = "orders" => Len(calls) = 1 /\ sends = <<>>

\* C6 witness: an order whose lookup found a product with an empty variant list.
C6_Witness ==
    /\ Responded
    /\ req.endpoint = "orders"
    /\ LookupFoundNothing
    /\ outcomes[1].payload.hasProduct

\* C7: an order response is 201 with a draftOrderId exactly when the mutation
\* returned a draft order; a mutation that returned none is answered
\* 500 {error: "Draft order failed", details: userErrors}; every other outcome
\* is 400, 401, 404 or 500, carries no order id and comes with no send attempted.
C7_OrderIdIffDraft ==
    req.endpoint = "orders"
    => /\ sends # <<>> => DraftReturned
       /\ Responded =>
            /\ res.status \in {201, 400, 401, 404, 500}
            /\ res.status = 201 <=> DraftReturned
            /\ "draftOrderId" \in DOMAIN res.body <=> DraftReturned
            /\ DraftReturned => res.body.draftOrderId = ReturnedDraft.id
            /\ (MutationReturned /\ ~ReturnedDraft.present)
               => res = [status |-> 500,
                         body |-> [error |-> "Draft order failed",
                                   details |-> outcomes[Len(outcomes)].payload.userErrors]]
            /\ res.status # 201 => sends = <<>>

\* C7 witness: the mutation returned userErrors and no draft order.
C7_Witness ==
    /\ Responded
    /\ req.endpoint = "orders"
    /\ MutationReturned
    /\ ~ReturnedDraft.present
    /\ outcomes[Len(outcomes)].payload.userErrors = "variant invalid"

\* C8: a successful product listing is answered with count = number of
\* products and, for every variant, an id in the gid:// form, with price and
\* inventory quantity copied through.
C8_ListingQualifiedIds ==
    (Responded /\ req.endpoint = "products" /\ res.status = 200)
    => LET upstream == outcomes[1].payload.products
       IN  /\ res.body.count = Len(upstream)
           /\ Len(res.body.products) = Len(upstream)
           /\ \A i \in 1..Len(upstream) :
                /\ Len(res.body.products[i].variants) = Len(upstream[i].variants.list)
                /\ \A k \in 1..Len(upstream[i].variants.list) :
                     /\ StartsWith(res.body.products[i].variants[k].id, GidScheme)
                     /\ res.body.products[i].variants[k].price = upstream[i].variants.list[k].price
                     /\ res.body.products[i].variants[k].inventory_quantity
                          = upstream[i].variants.list[k].inventory_quantity

\* C8 amended: a successful product listing is answered with count = number of
\* products and, for every variant, the upstream admin_graphql_api_id (gid://
\* form) when the record carries one and otherwise the decimal text of its bare
\* numeric id, with price and inventory quantity copied through.
C8_ListingIdsAsUpstream ==
    (Responded /\ req.endpoint = "products" /\ res.status = 200)
    => LET upstream == outcomes[1].payload.products
       IN  /\ res.body.count = Len(upstream)
           /\ Len(res.body.products) = Len(upstream)
           /\ \A i \in 1..Len(upstream) :
                /\ Len(res.body.products[i].variants) = Len(upstream[i].variants.list)
                /\ \A k \in 1..Len(upstream[i].variants.list) :
                     LET u == upstream[i].variants.list[k]
                         v == res.body.products[i].variants[k]
                     IN  /\ u.admin_graphql_api_id.t = "string" =>
                                v.id = u.admin_graphql_api_id.s /\ StartsWith(v.id, GidScheme)
                         /\ u.admin_graphql_api_id.t = "undefined" =>
                                v.id = ToDigits(u.id) /\ BareNumeric(Str(v.id))
                         /\ v.price = u.price
                         /\ v.inventory_quantity = u.inventory_quantity

\* C8 witness: a listing of two products answered 200 where a variant has a
\* qualified id and another only a bare numeric id.
C8_Witness ==
    /\ Responded
    /\ req.endpoint = "products"
    /\ res.status = 200
    /\ res.body.count = 2
    /\ Len(res.body.products[1].variants) = 2
    /\ StartsWith(res.body.products[1].variants[1].id, GidScheme)
    /\ BareNumeric(Str(res.body.products[1].variants[2].id))

\* C9: with the messaging setup fully configured, the sends of a created order
\* go to the recipients in list order, one per recipient, at most one in flight,
\* and when the order is answered every recipient has had its attempt even if
\* earlier sends failed.
C9_EveryRecipientOnce ==
    /\ Len(sends) <= Len(cfg.WA_RECIPIENTS)
    /\ \A j \in 1..Len(sends) :
         /\ sends[j].to = cfg.WA_RECIPIENTS[j]
         /\ sends[j].result = "pending" => j = Len(sends) /\ pc = "awaitSend"
    /\ ( /\ Responded
         /\ req.endpoint = "orders"
         /\ DraftReturned
         /\ cfg.WA_TOKEN # "" /\ cfg.WA_PHONE_ID # "" /\ Len(cfg.WA_RECIPIENTS) > 0 )
       => /\ Len(sends) = Len(cfg.WA_RECIPIENTS)
          /\ \A j \in 1..Len(sends) : sends[j].result # "pending"

\* C9 witness: the first send threw and the last recipient still got a send.
C9_Witness ==
    /\ Responded
    /\ Len(cfg.WA_RECIPIENTS) >= 2
    /\ Len(sends) = Len(cfg.WA_RECIPIENTS)
    /\ sends[1].result = "threw"
    /\ sends[Len(sends)].result = "delivered"

PhaseRank(ph) ==
    CASE ph = "Received" -> 1
      [] ph = "Authenticated" -> 2
      [] ph = "Validated" -> 3
      [] ph = "UpstreamCalled" -> 4
      [] OTHER -> 5

\* C10: a request moves Received, Authenticated, Validated, UpstreamCalled (at
\* most twice), Responded in that order; its commerce calls are at most two,
\* never two in flight, never the same call twice; an order looks the variant
\* up before the mutation starts and skips the lookup when a variantId is
\* given; a failed call is the last call and the request is answered with an error.
C10_SequentialNoRetry ==
    /\ \A i \in 1..Len(phases) :
         /\ i = 1 => phases[i] = "Received"
         /\ i > 1 => \/ PhaseRank(phases[i - 1]) < PhaseRank(phases[i])
                     \/ phases[i - 1] = "UpstreamCalled" /\ phases[i] = "UpstreamCalled"
         /\ PhaseRank(phases[i]) \in {3, 4} => phases[2] = "Authenticated"
         /\ (phases[i] = "UpstreamCalled" /\ req.endpoint = "orders") => phases[3] = "Validated"
         /\ phases[i] = "Responded" => i = Len(phases) /\ Responded
    /\ Len(calls) <= 2
    /\ Len(calls) = Cardinality({ i \in 1..Len(phases) : phases[i] = "UpstreamCalled" })
    /\ Cardinality(pending) <= 1
    /\ pending \subseteq {<<"call", Len(calls)>>}
    /\ Len(outcomes) + Cardinality(pending) = Len(calls)
    /\ \A i, j \in 1..Len(calls) : i < j => calls[i].op # calls[j].op
    /\ Len(calls) = 2
       => /\ req.endpoint = "orders"
          /\ calls[1].op = "product" /\ calls[2].op = "draftOrderCreate"
          /\ Len(outcomes) >= 1 /\ ~outcomes[1].threw
    /\ (req.endpoint = "orders" /\ Truthy(req.body.variantId))
       => \A i \in 1..Len(calls) : calls[i].op # "product"
    /\ \A i \in 1..Len(outcomes) :
         outcomes[i].threw
         => /\ i = Len(calls)
            /\ Responded
            /\ res.status >= 500
            /\ "error" \in DOMAIN res.body

\* C10 witness: an order whose lookup succeeded and whose mutation then failed.
C10_Witness ==
    /\ Responded
    /\ req.endpoint = "orders"
    /\ Len(calls) = 2
    /\ outcomes[2].threw
====
